---- MODULE Spec2Model ----
(***************************************************************************)
(* Sales Assistant MCP server: the seven tool coroutines of                *)
(* mcp_server/server.py running on one asyncio event loop, and the         *)
(* ServiceManager of mcp_server/services/service_manager.py they share     *)
(* through the module global service_manager.                              *)
(*                                                                         *)
(* One action is the code a coroutine runs between two suspension points   *)
(* (awaited client calls).  The three clients (GmailService, OpenAIService,*)
(* SalesforceService) are the environment: every awaited call either       *)
(* returns one of a few sample results or raises.                          *)
(***************************************************************************)
EXTENDS Integers, Sequences, FiniteSets, TLC

\* Number of tool invocations (asyncio tasks) in a behaviour.
NTasks == 2

Tasks == 1..NTasks

\* Python None in a str-typed position, and in a dict-typed position.
None == "None"
NoneObj == [None |-> TRUE]

\* dict.get(key, default)
Get(d, k, default) == IF k \in DOMAIN d THEN d[k] ELSE default

RECURSIVE SplitAcc(_, _, _, _)
SplitAcc(s, i, cur, acc) ==
    IF i > Len(s)
    THEN IF cur = <<>> THEN acc ELSE Append(acc, cur)
    ELSE IF s[i] = " "
         THEN SplitAcc(s, i + 1, <<>>, IF cur = <<>> THEN acc ELSE Append(acc, cur))
         ELSE SplitAcc(s, i + 1, Append(cur, s[i]), acc)

\* str.split() without arguments: the maximal runs of non-whitespace
\* characters.  A str that is split is a sequence of characters.
Split(s) == SplitAcc(s, 1, <<>>, <<>>)

(***************************************************************************)
(* Exceptions.  str(e) is the msg field.                                   *)
(***************************************************************************)
Exc(cls, msg) == [cls |-> cls, msg |-> msg]

\* What a client call raises when it fails.
ClientError(op) == Exc("RuntimeError", op \o " failed")

\* service_manager.<client> is None: attribute lookup on None.
NoneAttr(op) == Exc("AttributeError", "'NoneType' object has no attribute '" \o op \o "'")

KeyErr(k) == Exc("KeyError", "'" \o k \o "'")

IndexErr == Exc("IndexError", "list index out of range")

\* The classes below are all subclasses of Exception.
ExceptionSubclasses == {"RuntimeError", "AttributeError", "KeyError", "IndexError"}

\* A variant of CatchesAll: `except RuntimeError as e:`.
CatchesRuntimeErrorOnly(exc) == exc.cls = "RuntimeError"

\* `except Exception as e:` of every tool.
CatchesAll(exc) == exc.cls \in ExceptionSubclasses

(***************************************************************************)
(* The tools and the client method each one awaits.                        *)
(***************************************************************************)
SingleTools == {"fetch_unread_emails", "analyze_email_with_ai", "extract_customer_info",
                "create_salesforce_lead", "search_salesforce_contacts", "send_email_reply"}

Workflow == "process_sales_workflow"

Tools == SingleTools \cup {Workflow}

\* The client attribute of ServiceManager and the method a tool calls first.
FirstCall(kind) ==
    CASE kind = "fetch_unread_emails"        -> [svc |-> "gmail",      op |-> "fetch_unread_emails"]
      [] kind = "analyze_email_with_ai"      -> [svc |-> "openai",     op |-> "analyze_email"]
      [] kind = "extract_customer_info"      -> [svc |-> "openai",     op |-> "extract_customer_info"]
      [] kind = "create_salesforce_lead"     -> [svc |-> "salesforce", op |-> "create_lead"]
      [] kind = "search_salesforce_contacts" -> [svc |-> "salesforce", op |-> "search_contact"]
      [] kind = "send_email_reply"           -> [svc |-> "gmail",      op |-> "send_email"]
      [] kind = Workflow                     -> [svc |-> "gmail",      op |-> "get_email"]

\* The five awaited calls of the workflow, in program order, and the step
\* name appended after each returns.
WorkflowOps == <<"get_email", "analyze_email", "extract_customer_info", "create_lead", "send_email">>

StepNames == <<"email_fetched", "ai_analysis", "customer_extracted", "lead_created", "reply_sent">>

(***************************************************************************)
(* Sample data returned by the clients.                                    *)
(***************************************************************************)
Chars(w) ==
    CASE w = "Jane Doe"     -> <<"J", "a", "n", "e", " ", "D", "o", "e">>
      [] w = "Madonna"      -> <<"M", "a", "d", "o", "n", "n", "a">>
      [] w = " Al  B. Cy "  -> <<" ", "A", "l", " ", " ", "B", ".", " ", "C", "y", " ">>
      [] w = "   "          -> <<" ", " ", " ">>
      [] w = ""             -> <<>>
      [] w = "Unknown"      -> <<"U", "n", "k", "n", "o", "w", "n">>
      [] w = "customer"     -> <<"c", "u", "s", "t", "o", "m", "e", "r">>

EmailIds == {"42", "43"}

\* GmailService.get_email(email_id): message 43 has no thread_id entry.
EmailOf(email_id) ==
    IF email_id = "42"
    THEN [id |-> "42", from |-> "a@b.com", subject |-> "Pricing?", body |-> "b42", thread_id |-> "t1"]
    ELSE [id |-> "43", from |-> "c@d.org", subject |-> "Demo", body |-> "b43"]

\* OpenAIService.analyze_email(body, analysis_type): the analysis of body b42
\* has a summary, the analysis of body b43 has none.
AnalysisOf(body) ==
    IF body = "b42"
    THEN [type |-> "customer_inquiry", summary |-> "asks about pricing"]
    ELSE [type |-> "customer_inquiry"]

\* OpenAIService.extract_customer_info results: fields may be absent or null.
CustomerInfos ==
    {[name |-> Chars("Jane Doe"), email |-> "jane@acme.com", company |-> "Acme", phone |-> "555"],
     [name |-> Chars("Madonna")],
     [name |-> Chars(" Al  B. Cy "), email |-> None, company |-> None, phone |-> None],
     [name |-> Chars("   "), email |-> "x@y.com"],
     [email |-> "x@y.com", company |-> "Acme"]}

\* SalesforceService.create_lead results for the n-th lead of the CRM: the
\* usual mapping, and one that carries no "id" entry.
LeadResults(n) == {[id |-> "L" \o ToString(n), url |-> "https://crm/L" \o ToString(n)],
                   [url |-> "https://crm/L" \o ToString(n)]}

\* The arguments a tool is invoked with.
ToolArgs(kind) ==
    CASE kind = "fetch_unread_emails"        -> {[max_results |-> 10]}
      [] kind = "analyze_email_with_ai"      -> {[email_content |-> "b42", analysis_type |-> "customer_inquiry"]}
      [] kind = "extract_customer_info"      -> {[email_content |-> "b42"]}
      [] kind = "create_salesforce_lead"     -> {[customer_data |-> [first_name |-> "Test", last_name |-> "Customer",
                                                                     email |-> "test@example.com",
                                                                     company |-> "Test Company"]]}
      [] kind = "search_salesforce_contacts" -> {[email |-> "a@b.com"]}
      [] kind = "send_email_reply"           -> {[to |-> "a@b.com", subject |-> "Hi", body |-> "text", thread_id |-> None]}
      [] kind = Workflow                     -> {[email_id |-> i] : i \in EmailIds}

\* The positional/keyword arguments of the client call a tool makes first.
FirstCallArgs(kind, args) ==
    CASE kind = "fetch_unread_emails"        -> <<args.max_results>>
      [] kind = "analyze_email_with_ai"      -> <<args.email_content, args.analysis_type>>
      [] kind = "extract_customer_info"      -> <<args.email_content>>
      [] kind = "create_salesforce_lead"     -> <<args.customer_data>>
      [] kind = "search_salesforce_contacts" -> <<args.email>>
      [] kind = "send_email_reply"           -> <<args>>
      [] kind = Workflow                     -> <<args.email_id>>

\* What the awaited call of a single-purpose tool can return.
SingleResults(kind, n) ==
    CASE kind = "fetch_unread_emails"        -> {<<>>, <<EmailOf("42"), EmailOf("43")>>}
      [] kind = "analyze_email_with_ai"      -> {AnalysisOf("b42")}
      [] kind = "extract_customer_info"      -> {[name |-> Chars("Jane Doe"), email |-> "jane@acme.com"]}
      [] kind = "create_salesforce_lead"     -> LeadResults(n)
      [] kind = "search_salesforce_contacts" -> {<<>>, <<[id |-> "C1", name |-> "Jane Doe", email |-> "a@b.com"]>>}
      [] kind = "send_email_reply"           -> {"m1"}

(***************************************************************************)
(* The pure parts of the handlers.                                         *)
(***************************************************************************)
\* The exception the success branch of a single-purpose tool raises while it
\* builds its envelope from result r, or NoneObj.
EnvelopeError(kind, r) ==
    IF kind = "create_salesforce_lead"
    THEN IF "id" \notin DOMAIN r THEN KeyErr("id")
         ELSE IF "url" \notin DOMAIN r THEN KeyErr("url") ELSE NoneObj
    ELSE NoneObj

\* The return statement of the try block of a single-purpose tool.
SuccessEnvelope(kind, r) ==
    CASE kind = "fetch_unread_emails" ->
            [success |-> TRUE, emails |-> r, count |-> Len(r),
             message |-> ToString(Len(r)) \o " unread emails"]
      [] kind = "analyze_email_with_ai" ->
            [success |-> TRUE, analysis |-> r, message |-> "analysis done"]
      [] kind = "extract_customer_info" ->
            [success |-> TRUE, customer_info |-> r, message |-> "extraction done"]
      [] kind = "create_salesforce_lead" ->
            [success |-> TRUE, lead_id |-> r.id, lead_url |-> r.url,
             message |-> "lead created: " \o r.id]
      [] kind = "search_salesforce_contacts" ->
            [success |-> TRUE, found |-> Len(r) > 0, contacts |-> r,
             message |-> ToString(Len(r)) \o " contacts"]
      [] kind = "send_email_reply" ->
            [success |-> TRUE, message_id |-> r, message |-> "email sent"]

\* A variant of SingleFailureEnvelope that reports the exception's class
\* name where the source reports str(e).
SingleFailureEnvelopeClassName(kind, exc) ==
    CASE kind = "fetch_unread_emails" ->
            [success |-> FALSE, emails |-> <<>>, count |-> 0, error |-> exc.cls]
      [] kind = "analyze_email_with_ai" ->
            [success |-> FALSE, analysis |-> NoneObj, error |-> exc.cls]
      [] kind = "extract_customer_info" ->
            [success |-> FALSE, customer_info |-> NoneObj, error |-> exc.cls]
      [] kind = "create_salesforce_lead" ->
            [success |-> FALSE, lead_id |-> None, lead_url |-> None, error |-> exc.cls]
      [] kind = "search_salesforce_contacts" ->
            [success |-> FALSE, found |-> FALSE, contacts |-> <<>>, error |-> exc.cls]
      [] kind = "send_email_reply" ->
            [success |-> FALSE, message_id |-> None, error |-> exc.cls]

\* The return statement of the except block of each single-purpose tool.
SingleFailureEnvelope(kind, exc) ==
    CASE kind = "fetch_unread_emails" ->
            [success |-> FALSE, emails |-> <<>>, count |-> 0, error |-> exc.msg]
      [] kind = "analyze_email_with_ai" ->
            [success |-> FALSE, analysis |-> NoneObj, error |-> exc.msg]
      [] kind = "extract_customer_info" ->
            [success |-> FALSE, customer_info |-> NoneObj, error |-> exc.msg]
      [] kind = "create_salesforce_lead" ->
            [success |-> FALSE, lead_id |-> None, lead_url |-> None, error |-> exc.msg]
      [] kind = "search_salesforce_contacts" ->
            [success |-> FALSE, found |-> FALSE, contacts |-> <<>>, error |-> exc.msg]
      [] kind = "send_email_reply" ->
            [success |-> FALSE, message_id |-> None, error |-> exc.msg]

\* A variant of WorkflowFailure that reports no completed steps.
WorkflowFailureNoSteps(steps_completed, exc) ==
    [success |-> FALSE, steps_completed |-> <<>>, lead_id |-> None,
     reply_sent |-> FALSE, error |-> exc.msg]

\* The return statement of the except block of process_sales_workflow.
WorkflowFailure(steps_completed, exc) ==
    [success |-> FALSE, steps_completed |-> steps_completed, lead_id |-> None,
     reply_sent |-> FALSE, error |-> exc.msg]

\* The except block of the tool `kind`.
FailureEnvelope(kind, exc, steps_completed) ==
    IF kind = Workflow
    THEN WorkflowFailure(steps_completed, exc)
    ELSE SingleFailureEnvelope(kind, exc)

\* A variant of WorkflowSuccess that reports the lead's url as its id.
WorkflowSuccessUrl(steps_completed, lead_result) ==
    [success |-> TRUE, steps_completed |-> steps_completed, lead_id |-> lead_result.url,
     reply_sent |-> TRUE, message |-> "workflow completed"]

\* The return statement of the try block of process_sales_workflow.
WorkflowSuccess(steps_completed, lead_result) ==
    [success |-> TRUE, steps_completed |-> steps_completed, lead_id |-> lead_result.id,
     reply_sent |-> TRUE, message |-> "workflow completed"]

\* customer_info.get("name", "").split()
NameTokens(customer_info) == Split(Get(customer_info, "name", Chars("")))

\* The exception building lead_data raises, or NoneObj: [0] of an empty split.
LeadDataError(customer_info) ==
    IF Len(NameTokens(customer_info)) = 0 THEN IndexErr ELSE NoneObj

\* A variant of LeadData that takes the second token as the last name.
LeadDataSecondToken(customer_info, email, analysis) ==
    LET tokens == NameTokens(customer_info) IN
    [first_name  |-> tokens[1],
     last_name   |-> IF Len(tokens) > 1 THEN tokens[2] ELSE Chars("Unknown"),
     email       |-> Get(customer_info, "email", email.from),
     company     |-> Get(customer_info, "company", "Unknown"),
     phone       |-> Get(customer_info, "phone", None),
     description |-> Get(analysis, "summary", ""),
     lead_source |-> "Email"]

\* The lead_data dict of step 4.
LeadData(customer_info, email, analysis) ==
    LET tokens == NameTokens(customer_info) IN
    [first_name  |-> tokens[1],
     last_name   |-> IF Len(tokens) > 1 THEN tokens[Len(tokens)] ELSE Chars("Unknown"),
     email       |-> Get(customer_info, "email", email.from),
     company     |-> Get(customer_info, "company", "Unknown"),
     phone       |-> Get(customer_info, "phone", None),
     description |-> Get(analysis, "summary", ""),
     lead_source |-> "Email"]

\* A variant of ReplyArgs that replies to the extracted customer email.
ReplyArgsToCustomer(email, customer_info) ==
    [to        |-> Get(customer_info, "email", email.from),
     subject   |-> "Re: " \o email.subject,
     body      |-> <<"template", Get(customer_info, "name", Chars("customer"))>>,
     thread_id |-> Get(email, "thread_id", None)]

\* The keyword arguments of gmail.send_email in step 5.  The body is the
\* fixed template around the customer's name (default: the source's
\* two-syllable Korean word for "customer").
ReplyArgs(email, customer_info) ==
    [to        |-> email.from,
     subject   |-> "Re: " \o email.subject,
     body      |-> <<"template", Get(customer_info, "name", Chars("customer"))>>,
     thread_id |-> Get(email, "thread_id", None)]

(***************************************************************************)
(* State.                                                                  *)
(***************************************************************************)
VARIABLES
    service_manager,  \* the module global: 0 for None, else an index into managers
    managers,         \* the ServiceManager objects created so far
    constructs,       \* per client class, the number of constructor calls
    initCalls,        \* per client class, the number of initialize() calls
    crm,              \* the CRM: leads created so far and the leads it holds
    tasks             \* the tool invocations

vars == <<service_manager, managers, constructs, initCalls, crm, tasks>>

Services == {"gmail", "openai", "salesforce"}

\* ServiceManager.__init__; failed records where initialize() raised.
NewManager == [gmail |-> 0, openai |-> 0, salesforce |-> 0, _initialized |-> FALSE, failed |-> ""]

IdleTask ==
    [kind |-> "idle", pc |-> "idle", args |-> NoneObj, self |-> 0,
     steps_completed |-> <<>>, email |-> NoneObj, analysis |-> NoneObj,
     customer_info |-> NoneObj, lead_result |-> NoneObj,
     call |-> NoneObj, result |-> NoneObj, exc |-> NoneObj,
     calls |-> <<>>, returned |-> <<>>, lead |-> None, crmCalls |-> 0]

Init ==
    /\ service_manager = 0
    /\ managers = <<>>
    /\ constructs = [s \in Services |-> 0]
    /\ initCalls = [s \in Services |-> 0]
    /\ crm = [created |-> 0, leads |-> {}]
    /\ tasks = [t \in Tasks |-> IdleTask]

(***************************************************************************)
(* Control flow shared by the tools.                                       *)
(***************************************************************************)
\* A return statement: the coroutine ends with envelope env.
Return(task, env) ==
    [task EXCEPT !.pc = "returned", !.result = env, !.self = 0, !.call = NoneObj, !.args = NoneObj,
                 !.steps_completed = <<>>, !.email = NoneObj, !.analysis = NoneObj,
                 !.customer_info = NoneObj, !.lead_result = NoneObj]

\* A variant of Handle that retries a failed get_email once more.
HandleRetry(task, exc) ==
    IF task.pc = "get_email"
    THEN [task EXCEPT !.calls = Append(@, "get_email")]
    ELSE IF CatchesAll(exc)
         THEN Return([task EXCEPT !.exc = exc],
                     FailureEnvelope(task.kind, exc, task.steps_completed))
         ELSE [task EXCEPT !.pc = "raised", !.exc = exc, !.call = NoneObj, !.args = NoneObj, !.self = 0]

\* A variant of Handle in which the failed coroutine stays suspended.
HandleWaits(task, exc) ==
    [task EXCEPT !.exc = exc, !.pc = "waiting"]

\* Exception exc is raised inside the try block of a tool: the except block
\* returns the failure envelope; an exception the clause does not catch
\* leaves the coroutine.
Handle(task, exc) ==
    IF CatchesAll(exc)
    THEN Return([task EXCEPT !.exc = exc],
                FailureEnvelope(task.kind, exc, task.steps_completed))
    ELSE [task EXCEPT !.pc = "raised", !.exc = exc, !.call = NoneObj, !.args = NoneObj, !.self = 0]

\* `await service_manager.<svc>.<op>(...)` evaluated against manager mgr:
\* attribute lookup on a None client raises, otherwise the call is issued
\* and the coroutine is suspended until it returns.
Await(task, mgr, svc, op, callargs) ==
    IF mgr[svc] = 0
    THEN Handle(task, NoneAttr(op))
    ELSE [task EXCEPT !.pc = op,
                      !.call = [svc |-> svc, op |-> op, args |-> callargs, handle |-> mgr[svc]],
                      !.calls = Append(@, op),
                      !.crmCalls = IF svc = "salesforce" THEN @ + 1 ELSE @]

\* The first awaited client call of a tool, after the lazy-initialization block.
AwaitFirst(task, mgr) ==
    Await(task, mgr, FirstCall(task.kind).svc, FirstCall(task.kind).op,
          FirstCallArgs(task.kind, task.args))

\* A variant of LazyInitNeeded that also re-creates a manager that is not
\* (yet) initialized.
LazyInitNeededUnlessReady ==
    IF service_manager = 0 THEN TRUE ELSE ~managers[service_manager]._initialized

\* `if not service_manager:` at the head of every tool.
LazyInitNeeded == service_manager = 0

\* `if self._initialized: return` of ServiceManager.initialize.
InitializeSkips(mgr) == mgr._initialized

(***************************************************************************)
(* A tool is invoked while the global is None: it creates the manager,     *)
(* assigns the global, and runs initialize() up to gmail.initialize().     *)
(***************************************************************************)
InvokeFirstUse(t) ==
    \E kind \in Tools : \E args \in ToolArgs(kind) : \E ok \in BOOLEAN :
        /\ tasks[t].pc = "idle"
        /\ LazyInitNeeded
        /\ LET m == Len(managers) + 1
               started == [IdleTask EXCEPT !.kind = kind, !.args = args]
           IN /\ service_manager' = m
              /\ IF InitializeSkips(NewManager)
                 THEN /\ managers' = Append(managers, NewManager)
                      /\ tasks' = [tasks EXCEPT ![t] = AwaitFirst(started, NewManager)]
                      /\ UNCHANGED <<constructs, initCalls>>
                 ELSE /\ constructs' = [constructs EXCEPT !.gmail = @ + 1]
                      /\ IF ok
                         THEN /\ managers' = Append(managers, [NewManager EXCEPT !.gmail = constructs'.gmail])
                              /\ initCalls' = [initCalls EXCEPT !.gmail = @ + 1]
                              /\ tasks' = [tasks EXCEPT ![t] =
                                              [started EXCEPT !.pc = "gmail.initialize", !.self = m]]
                         ELSE /\ managers' = Append(managers, [NewManager EXCEPT !.failed = "GmailService"])
                              /\ UNCHANGED initCalls
                              /\ tasks' = [tasks EXCEPT ![t] = Handle(started, ClientError("GmailService"))]
        /\ UNCHANGED crm

(***************************************************************************)
(* A tool is invoked while the global holds a manager: no initialization,  *)
(* the tool goes straight to its first client call.                        *)
(***************************************************************************)
InvokeTool(t) ==
    \E kind \in Tools : \E args \in ToolArgs(kind) :
        /\ tasks[t].pc = "idle"
        /\ ~LazyInitNeeded
        /\ tasks' = [tasks EXCEPT ![t] =
                        AwaitFirst([IdleTask EXCEPT !.kind = kind, !.args = args],
                                   managers[service_manager])]
        /\ UNCHANGED <<service_manager, managers, constructs, initCalls, crm>>

(***************************************************************************)
(* gmail.initialize() returns into ServiceManager.initialize: on success   *)
(* the OpenAI and Salesforce clients are constructed and                   *)
(* salesforce.initialize() is awaited; any failure is re-raised.           *)
(***************************************************************************)
GmailInitializeReturn(t) ==
    \E r \in {"ok", "gmail.initialize", "OpenAIService", "SalesforceService"} :
        /\ tasks[t].pc = "gmail.initialize"
        /\ LET m == tasks[t].self
               fail == /\ managers' = [managers EXCEPT ![m].failed = r]
                       /\ tasks' = [tasks EXCEPT ![t] = Handle(@, ClientError(r))]
           IN CASE r = "gmail.initialize" ->
                     /\ fail
                     /\ UNCHANGED <<constructs, initCalls>>
                [] r = "OpenAIService" ->
                     /\ constructs' = [constructs EXCEPT !.openai = @ + 1]
                     /\ fail
                     /\ UNCHANGED initCalls
                [] r = "SalesforceService" ->
                     /\ constructs' = [constructs EXCEPT !.openai = @ + 1, !.salesforce = @ + 1]
                     /\ managers' = [managers EXCEPT ![m].openai = constructs'.openai, ![m].failed = r]
                     /\ tasks' = [tasks EXCEPT ![t] = Handle(@, ClientError(r))]
                     /\ UNCHANGED initCalls
                [] r = "ok" ->
                     /\ constructs' = [constructs EXCEPT !.openai = @ + 1, !.salesforce = @ + 1]
                     /\ managers' = [managers EXCEPT ![m].openai = constructs'.openai,
                                                     ![m].salesforce = constructs'.salesforce]
                     /\ initCalls' = [initCalls EXCEPT !.salesforce = @ + 1]
                     /\ tasks' = [tasks EXCEPT ![t].pc = "salesforce.initialize"]
        /\ UNCHANGED <<service_manager, crm>>

\* A variant of SalesforceInitializeReturn that marks the manager
\* initialized in a finally clause, also when salesforce.initialize() raised.
SalesforceInitializeReturnFinally(t) ==
    \E ok \in BOOLEAN :
        /\ tasks[t].pc = "salesforce.initialize"
        /\ LET m == tasks[t].self IN
           IF ok
           THEN /\ managers' = [managers EXCEPT ![m]._initialized = TRUE]
                /\ tasks' = [tasks EXCEPT ![t] =
                                AwaitFirst([@ EXCEPT !.self = 0], managers'[service_manager])]
           ELSE /\ managers' = [managers EXCEPT ![m].failed = "salesforce.initialize",
                                                ![m]._initialized = TRUE]
                /\ tasks' = [tasks EXCEPT ![t] = Handle(@, ClientError("salesforce.initialize"))]
        /\ UNCHANGED <<service_manager, constructs, initCalls, crm>>

(***************************************************************************)
(* salesforce.initialize() returns: on success the manager is marked       *)
(* initialized, initialize() returns and the tool makes its first call.    *)
(***************************************************************************)
SalesforceInitializeReturn(t) ==
    \E ok \in BOOLEAN :
        /\ tasks[t].pc = "salesforce.initialize"
        /\ LET m == tasks[t].self IN
           IF ok
           THEN /\ managers' = [managers EXCEPT ![m]._initialized = TRUE]
                /\ tasks' = [tasks EXCEPT ![t] =
                                AwaitFirst([@ EXCEPT !.self = 0], managers'[service_manager])]
           ELSE /\ managers' = [managers EXCEPT ![m].failed = "salesforce.initialize"]
                /\ tasks' = [tasks EXCEPT ![t] = Handle(@, ClientError("salesforce.initialize"))]
        /\ UNCHANGED <<service_manager, constructs, initCalls, crm>>

(***************************************************************************)
(* The awaited call of a single-purpose tool returns or raises.            *)
(***************************************************************************)
SingleReturn(t, kind) ==
    /\ tasks[t].kind = kind
    /\ tasks[t].pc = FirstCall(kind).op
    /\ \/ /\ tasks' = [tasks EXCEPT ![t] = Handle(@, ClientError(@.pc))]
          /\ UNCHANGED crm
       \/ \E r \in SingleResults(kind, crm.created + 1) :
             LET done == [tasks[t] EXCEPT !.returned = Append(@, tasks[t].pc)] IN
             /\ tasks' = [tasks EXCEPT ![t] =
                             IF EnvelopeError(kind, r) # NoneObj
                             THEN Handle(done, EnvelopeError(kind, r))
                             ELSE Return(done, SuccessEnvelope(kind, r))]
             /\ crm' = IF kind = "create_salesforce_lead"
                       THEN [created |-> crm.created + 1,
                             leads |-> crm.leads \cup {"L" \o ToString(crm.created + 1)}]
                       ELSE crm
    /\ UNCHANGED <<service_manager, managers, constructs, initCalls>>

FetchUnreadEmailsReturn(t) == SingleReturn(t, "fetch_unread_emails")

AnalyzeEmailWithAiReturn(t) == SingleReturn(t, "analyze_email_with_ai")

ExtractCustomerInfoReturn(t) == SingleReturn(t, "extract_customer_info")

CreateSalesforceLeadReturn(t) == SingleReturn(t, "create_salesforce_lead")

SearchSalesforceContactsReturn(t) == SingleReturn(t, "search_salesforce_contacts")

SendEmailReplyReturn(t) == SingleReturn(t, "send_email_reply")

(***************************************************************************)
(* process_sales_workflow: one action per awaited call.  A local that is   *)
(* not read again is dropped from the task.                                *)
(***************************************************************************)
\* A variant of StepDone in which step 3 appends the name of step 2.
StepDoneCopyPaste(task, i) ==
    [task EXCEPT !.steps_completed = Append(@, StepNames[IF i = 3 THEN 2 ELSE i]),
                 !.returned = Append(@, WorkflowOps[i])]

\* The awaited call of workflow step i returned: the step name is appended.
StepDone(task, i) ==
    [task EXCEPT !.steps_completed = Append(@, StepNames[i]),
                 !.returned = Append(@, WorkflowOps[i])]

\* Step 1: gmail.get_email returns the message, then analyze_email is awaited.
WfGetEmailReturn(t) ==
    /\ tasks[t].kind = Workflow
    /\ tasks[t].pc = "get_email"
    /\ \/ tasks' = [tasks EXCEPT ![t] = Handle(@, ClientError("get_email"))]
       \/ LET email == EmailOf(tasks[t].args.email_id)
              task == [StepDone(tasks[t], 1) EXCEPT !.email = email]
          IN tasks' = [tasks EXCEPT ![t] =
                          Await(task, managers[service_manager], "openai", "analyze_email",
                                <<email.body, "customer_inquiry">>)]
    /\ UNCHANGED <<service_manager, managers, constructs, initCalls, crm>>

\* Step 2: openai.analyze_email returns, then extract_customer_info is awaited.
WfAnalyzeEmailReturn(t) ==
    /\ tasks[t].kind = Workflow
    /\ tasks[t].pc = "analyze_email"
    /\ \/ tasks' = [tasks EXCEPT ![t] = Handle(@, ClientError("analyze_email"))]
       \/ LET task == [StepDone(tasks[t], 2) EXCEPT !.analysis = AnalysisOf(tasks[t].email.body)]
          IN tasks' = [tasks EXCEPT ![t] =
                          Await(task, managers[service_manager], "openai", "extract_customer_info",
                                <<task.email.body>>)]
    /\ UNCHANGED <<service_manager, managers, constructs, initCalls, crm>>

\* Step 3: openai.extract_customer_info returns; lead_data is built and
\* salesforce.create_lead is awaited.
WfExtractCustomerInfoReturn(t) ==
    /\ tasks[t].kind = Workflow
    /\ tasks[t].pc = "extract_customer_info"
    /\ \/ tasks' = [tasks EXCEPT ![t] = Handle(@, ClientError("extract_customer_info"))]
       \/ \E customer_info \in CustomerInfos :
             LET task == [StepDone(tasks[t], 3) EXCEPT !.customer_info = customer_info]
             IN tasks' = [tasks EXCEPT ![t] =
                             IF LeadDataError(customer_info) # NoneObj
                             THEN Handle(task, LeadDataError(customer_info))
                             ELSE Await(task, managers[service_manager], "salesforce", "create_lead",
                                        <<LeadData(customer_info, task.email, task.analysis)>>)]
    /\ UNCHANGED <<service_manager, managers, constructs, initCalls, crm>>

\* Step 4: salesforce.create_lead returns the new lead; the reply is
\* composed and gmail.send_email is awaited.
WfCreateLeadReturn(t) ==
    /\ tasks[t].kind = Workflow
    /\ tasks[t].pc = "create_lead"
    /\ \/ /\ tasks' = [tasks EXCEPT ![t] = Handle(@, ClientError("create_lead"))]
          /\ UNCHANGED crm
       \/ \E lead_result \in LeadResults(crm.created + 1) :
             LET id == "L" \o ToString(crm.created + 1)
                 task == [StepDone(tasks[t], 4) EXCEPT !.lead_result = lead_result, !.lead = id,
                                                       !.analysis = NoneObj]
             IN /\ crm' = [created |-> crm.created + 1, leads |-> crm.leads \cup {id}]
                /\ tasks' = [tasks EXCEPT ![t] =
                                Await(task, managers[service_manager], "gmail", "send_email",
                                      ReplyArgs(task.email, task.customer_info))]
    /\ UNCHANGED <<service_manager, managers, constructs, initCalls>>

\* A variant of WfSendEmailReturn that compensates a failed reply by
\* deleting the lead of step 4 from the CRM.
WfSendEmailReturnRollback(t) ==
    /\ tasks[t].kind = Workflow
    /\ tasks[t].pc = "send_email"
    /\ \/ /\ tasks' = [tasks EXCEPT ![t] =
                          Handle([@ EXCEPT !.crmCalls = @ + 1], ClientError("send_email"))]
          /\ crm' = [crm EXCEPT !.leads = @ \ {tasks[t].lead}]
       \/ /\ LET task == StepDone(tasks[t], 5)
             IN tasks' = [tasks EXCEPT ![t] =
                             IF "id" \notin DOMAIN task.lead_result
                             THEN Handle(task, KeyErr("id"))
                             ELSE Return(task, WorkflowSuccess(task.steps_completed, task.lead_result))]
          /\ UNCHANGED crm
    /\ UNCHANGED <<service_manager, managers, constructs, initCalls>>

\* Step 5: gmail.send_email returns; the success outcome is built, which
\* reads lead_result["id"].
WfSendEmailReturn(t) ==
    /\ tasks[t].kind = Workflow
    /\ tasks[t].pc = "send_email"
    /\ \/ tasks' = [tasks EXCEPT ![t] = Handle(@, ClientError("send_email"))]
       \/ LET task == StepDone(tasks[t], 5)
          IN tasks' = [tasks EXCEPT ![t] =
                          IF "id" \notin DOMAIN task.lead_result
                          THEN Handle(task, KeyErr("id"))
                          ELSE Return(task, WorkflowSuccess(task.steps_completed, task.lead_result))]
    /\ UNCHANGED <<service_manager, managers, constructs, initCalls, crm>>

Next ==
    \E t \in Tasks :
        \/ InvokeFirstUse(t)
        \/ InvokeTool(t)
        \/ GmailInitializeReturn(t)
        \/ SalesforceInitializeReturn(t)
        \/ FetchUnreadEmailsReturn(t)
        \/ AnalyzeEmailWithAiReturn(t)
        \/ ExtractCustomerInfoReturn(t)
        \/ CreateSalesforceLeadReturn(t)
        \/ SearchSalesforceContactsReturn(t)
        \/ SendEmailReplyReturn(t)
        \/ WfGetEmailReturn(t)
        \/ WfAnalyzeEmailReturn(t)
        \/ WfExtractCustomerInfoReturn(t)
        \/ WfCreateLeadReturn(t)
        \/ WfSendEmailReturn(t)

Spec == Init /\ [][Next]_vars

\* A client's first request is process_sales_workflow.
StartWorkflowFirstUse(t) == InvokeFirstUse(t) /\ tasks'[t].kind = Workflow

\* A client requests process_sales_workflow once the global is set.
StartWorkflow(t) == InvokeTool(t) /\ tasks'[t].kind = Workflow

\* The event loop resumes workflow coroutine t once the call it awaits has
\* returned or raised.
Resume(t) ==
    \/ GmailInitializeReturn(t)
    \/ SalesforceInitializeReturn(t)
    \/ WfGetEmailReturn(t)
    \/ WfAnalyzeEmailReturn(t)
    \/ WfExtractCustomerInfoReturn(t)
    \/ WfCreateLeadReturn(t)
    \/ WfSendEmailReturn(t)

WorkflowNext ==
    \E t \in Tasks :
        \/ StartWorkflowFirstUse(t)
        \/ StartWorkflow(t)
        \/ GmailInitializeReturn(t)
        \/ SalesforceInitializeReturn(t)
        \/ WfGetEmailReturn(t)
        \/ WfAnalyzeEmailReturn(t)
        \/ WfExtractCustomerInfoReturn(t)
        \/ WfCreateLeadReturn(t)
        \/ WfSendEmailReturn(t)

\* The server handling process_sales_workflow requests, under the assumption
\* that every awaited call eventually returns or raises.
FairSpec == Init /\ [][WorkflowNext]_vars /\ \A t \in Tasks : WF_vars(Resume(t))

(***************************************************************************)
(* ServiceManager used directly: callers share one instance and call its   *)
(* initialize() and cleanup() coroutines, one call after the other or      *)
(* interleaved at the awaits.  Exceptions leave the coroutine (`raise`).   *)
(***************************************************************************)
MaxConstructs == 2

\* The instance the callers share, as ServiceManager() leaves it.
LifecycleInit ==
    /\ service_manager = 1
    /\ managers = <<NewManager>>
    /\ constructs = [s \in Services |-> 0]
    /\ initCalls = [s \in Services |-> 0]
    /\ crm = [created |-> 0, leads |-> {}]
    /\ tasks = [t \in Tasks |-> IdleTask]

\* A caller is free to make its next call.
CanCall(t) == tasks[t].pc \in {"idle", "returned", "raised"}

\* The exception propagates out of the coroutine.
Raise(task, exc) == [task EXCEPT !.pc = "raised", !.exc = exc, !.call = NoneObj]

InitializeCalls ==
    <<"GmailService", "gmail.initialize", "OpenAIService", "SalesforceService",
      "salesforce.initialize">>

\* initialize() is called: it returns at once on an initialized manager,
\* else constructs the Gmail client and awaits gmail.initialize().
Initialize(t) ==
    \E ok \in BOOLEAN :
        /\ CanCall(t)
        /\ LET mgr == managers[service_manager]
               started == [IdleTask EXCEPT !.kind = "initialize"]
           IN IF InitializeSkips(mgr)
              THEN /\ tasks' = [tasks EXCEPT ![t] = [started EXCEPT !.pc = "returned"]]
                   /\ UNCHANGED <<managers, constructs, initCalls>>
              ELSE /\ constructs.gmail < MaxConstructs
                   /\ constructs' = [constructs EXCEPT !.gmail = @ + 1]
                   /\ IF ok
                      THEN /\ managers' = [managers EXCEPT ![service_manager].gmail = constructs'.gmail]
                           /\ initCalls' = [initCalls EXCEPT !.gmail = @ + 1]
                           /\ tasks' = [tasks EXCEPT ![t] =
                                           [started EXCEPT !.pc = "gmail.initialize",
                                                           !.self = service_manager,
                                                           !.calls = SubSeq(InitializeCalls, 1, 2)]]
                      ELSE /\ managers' = [managers EXCEPT ![service_manager].failed = "GmailService"]
                           /\ UNCHANGED initCalls
                           /\ tasks' = [tasks EXCEPT ![t] =
                                           Raise([started EXCEPT !.calls = SubSeq(InitializeCalls, 1, 1)],
                                                 ClientError("GmailService"))]
        /\ UNCHANGED <<service_manager, crm>>

\* gmail.initialize() returns into initialize(): the OpenAI and Salesforce
\* clients are constructed and salesforce.initialize() is awaited.
InitializeGmailReturn(t) ==
    \E r \in {"ok", "gmail.initialize", "OpenAIService", "SalesforceService"} :
        /\ tasks[t].kind = "initialize"
        /\ tasks[t].pc = "gmail.initialize"
        /\ LET m == tasks[t].self IN
           CASE r = "gmail.initialize" ->
                  /\ managers' = [managers EXCEPT ![m].failed = r]
                  /\ tasks' = [tasks EXCEPT ![t] = Raise(@, ClientError(r))]
                  /\ UNCHANGED <<constructs, initCalls>>
             [] r = "OpenAIService" ->
                  /\ constructs' = [constructs EXCEPT !.openai = @ + 1]
                  /\ managers' = [managers EXCEPT ![m].failed = r]
                  /\ tasks' = [tasks EXCEPT ![t] =
                                  Raise([@ EXCEPT !.calls = SubSeq(InitializeCalls, 1, 3)],
                                        ClientError(r))]
                  /\ UNCHANGED initCalls
             [] r = "SalesforceService" ->
                  /\ constructs' = [constructs EXCEPT !.openai = @ + 1, !.salesforce = @ + 1]
                  /\ managers' = [managers EXCEPT ![m].openai = constructs'.openai, ![m].failed = r]
                  /\ tasks' = [tasks EXCEPT ![t] =
                                  Raise([@ EXCEPT !.calls = SubSeq(InitializeCalls, 1, 4)],
                                        ClientError(r))]
                  /\ UNCHANGED initCalls
             [] r = "ok" ->
                  /\ constructs' = [constructs EXCEPT !.openai = @ + 1, !.salesforce = @ + 1]
                  /\ managers' = [managers EXCEPT ![m].openai = constructs'.openai,
                                                  ![m].salesforce = constructs'.salesforce]
                  /\ initCalls' = [initCalls EXCEPT !.salesforce = @ + 1]
                  /\ tasks' = [tasks EXCEPT ![t].pc = "salesforce.initialize",
                                            ![t].calls = InitializeCalls]
        /\ UNCHANGED <<service_manager, crm>>

\* salesforce.initialize() returns into initialize(): the manager is marked
\* initialized and initialize() returns.
InitializeSalesforceReturn(t) ==
    \E ok \in BOOLEAN :
        /\ tasks[t].kind = "initialize"
        /\ tasks[t].pc = "salesforce.initialize"
        /\ LET m == tasks[t].self IN
           IF ok
           THEN /\ managers' = [managers EXCEPT ![m]._initialized = TRUE]
                /\ tasks' = [tasks EXCEPT ![t].pc = "returned", ![t].self = 0]
           ELSE /\ managers' = [managers EXCEPT ![m].failed = "salesforce.initialize"]
                /\ tasks' = [tasks EXCEPT ![t] = Raise(@, ClientError("salesforce.initialize"))]
        /\ UNCHANGED <<service_manager, constructs, initCalls, crm>>

\* `await self.<svc>.cleanup()` inside cleanup().
AwaitCleanup(task, mgr, svc) ==
    [task EXCEPT !.pc = svc \o ".cleanup",
                 !.call = [svc |-> svc, op |-> "cleanup", args |-> <<>>, handle |-> mgr[svc]],
                 !.calls = Append(@, svc \o ".cleanup")]

\* A variant of CleanupDone that returns without resetting _initialized.
CleanupDoneKeepsFlag(t, m) ==
    /\ UNCHANGED managers
    /\ tasks' = [tasks EXCEPT ![t].pc = "returned", ![t].call = NoneObj, ![t].self = 0]

\* The end of cleanup(): the manager is marked uninitialized.
CleanupDone(t, m) ==
    /\ managers' = [managers EXCEPT ![m]._initialized = FALSE]
    /\ tasks' = [tasks EXCEPT ![t].pc = "returned", ![t].call = NoneObj, ![t].self = 0]

\* cleanup() is called: it awaits the cleanup of the Gmail client if it
\* holds one, else goes on to the Salesforce client.
Cleanup(t) ==
    /\ CanCall(t)
    /\ LET mgr == managers[service_manager]
           started == [IdleTask EXCEPT !.kind = "cleanup", !.self = service_manager]
       IN IF mgr.gmail # 0
          THEN /\ tasks' = [tasks EXCEPT ![t] = AwaitCleanup(started, mgr, "gmail")]
               /\ UNCHANGED managers
          ELSE IF mgr.salesforce # 0
               THEN /\ tasks' = [tasks EXCEPT ![t] = AwaitCleanup(started, mgr, "salesforce")]
                    /\ UNCHANGED managers
               ELSE CleanupDone(t, service_manager) /\ tasks'[t].kind = "cleanup"
    /\ UNCHANGED <<service_manager, constructs, initCalls, crm>>

\* gmail.cleanup() returns into cleanup(): the Salesforce client is cleaned
\* up if the manager holds one; an exception propagates.
CleanupGmailReturn(t) ==
    \E ok \in BOOLEAN :
        /\ tasks[t].pc = "gmail.cleanup"
        /\ LET m == tasks[t].self IN
           IF ~ok
           THEN /\ tasks' = [tasks EXCEPT ![t] = Raise(@, ClientError("gmail.cleanup"))]
                /\ UNCHANGED managers
           ELSE IF managers[m].salesforce # 0
                THEN /\ tasks' = [tasks EXCEPT ![t] = AwaitCleanup(@, managers[m], "salesforce")]
                     /\ UNCHANGED managers
                ELSE CleanupDone(t, m)
        /\ UNCHANGED <<service_manager, constructs, initCalls, crm>>

\* salesforce.cleanup() returns into cleanup().
CleanupSalesforceReturn(t) ==
    \E ok \in BOOLEAN :
        /\ tasks[t].pc = "salesforce.cleanup"
        /\ LET m == tasks[t].self IN
           IF ok
           THEN CleanupDone(t, m)
           ELSE /\ tasks' = [tasks EXCEPT ![t] = Raise(@, ClientError("salesforce.cleanup"))]
                /\ UNCHANGED managers
        /\ UNCHANGED <<service_manager, constructs, initCalls, crm>>

\* Callers that only ever initialize.
InitializeNext ==
    \E t \in Tasks :
        \/ Initialize(t)
        \/ InitializeGmailReturn(t)
        \/ InitializeSalesforceReturn(t)

InitializeSpec == LifecycleInit /\ [][InitializeNext]_vars

LifecycleNext ==
    \E t \in Tasks :
        \/ Initialize(t)
        \/ InitializeGmailReturn(t)
        \/ InitializeSalesforceReturn(t)
        \/ Cleanup(t)
        \/ CleanupGmailReturn(t)
        \/ CleanupSalesforceReturn(t)

LifecycleSpec == LifecycleInit /\ [][LifecycleNext]_vars

(***************************************************************************)
(* Properties of process_sales_workflow outcomes.                          *)
(***************************************************************************)
IsPrefix(a, b) == Len(a) <= Len(b) /\ \A i \in 1..Len(a) : a[i] = b[i]

\* The step name of an awaited workflow call.
StepNameOf(op) == StepNames[CHOOSE i \in 1..Len(WorkflowOps) : WorkflowOps[i] = op]

\* The step names of the calls that returned, in the order they returned.
FinishedSteps(t) == [i \in 1..Len(tasks[t].returned) |-> StepNameOf(tasks[t].returned[i])]

WfReturned(t) == tasks[t].kind = Workflow /\ tasks[t].pc = "returned"

WfFailed(t) == WfReturned(t) /\ ~tasks[t].result.success

WfSucceeded(t) == WfReturned(t) /\ tasks[t].result.success

\* C1: a failed workflow run returns success=false, reply_sent=false, a
\* populated error, and steps_completed equal to the step names of the calls
\* that returned before the failure: [] when the fetch did not return, and the
\* first three names with lead_id=None when lead creation failed.
C1_FailedOutcome ==
    \A t \in Tasks :
        WfFailed(t) =>
            LET r == tasks[t].result IN
            /\ r.reply_sent = FALSE
            /\ "error" \in DOMAIN r /\ r.error \notin {None, ""}
            /\ r.steps_completed = FinishedSteps(t)
            /\ (tasks[t].returned = <<>> => r.steps_completed = <<>>)
            /\ (Len(tasks[t].returned) = 3 =>
                   /\ r.steps_completed = <<"email_fetched", "ai_analysis", "customer_extracted">>
                   /\ r.lead_id = None)

\* One run failed at the fetch and another at create_lead after three steps.
C1_Witness ==
    \E t, u \in Tasks :
        /\ WfFailed(t) /\ tasks[t].exc = ClientError("get_email")
        /\ WfFailed(u) /\ tasks[u].exc = ClientError("create_lead")
        /\ Len(tasks[u].returned) = 3

\* C2: a successful workflow run returns all five step names in order, the
\* id the CRM returned to this run's create_lead call, and reply_sent=true.
C2_SuccessOutcome ==
    \A t \in Tasks :
        WfSucceeded(t) =>
            LET r == tasks[t].result IN
            /\ r.steps_completed = <<"email_fetched", "ai_analysis", "customer_extracted",
                                     "lead_created", "reply_sent">>
            /\ r.lead_id = tasks[t].lead
            /\ r.lead_id # None
            /\ r.reply_sent = TRUE

\* Two runs succeeded, each with its own lead.
C2_Witness ==
    \E t, u \in Tasks : WfSucceeded(t) /\ WfSucceeded(u) /\ tasks[t].lead # tasks[u].lead

\* C3: the calls of a run are a prefix of get_email, analyze_email,
\* extract_customer_info, create_lead, send_email (so each at most once, in
\* that order), and a call is made only when every earlier one returned:
\* at most one call is ever outstanding or failed, and it is the last one.
C3_CallOrder ==
    \A t \in Tasks :
        tasks[t].kind = Workflow =>
            /\ IsPrefix(tasks[t].calls, WorkflowOps)
            /\ IsPrefix(tasks[t].returned, tasks[t].calls)
            /\ Len(tasks[t].calls) <= Len(tasks[t].returned) + 1
            /\ (tasks[t].pc = "returned" /\ tasks[t].exc = NoneObj =>
                   tasks[t].calls = WorkflowOps)

\* A run whose analyze_email call raised has returned after exactly two calls.
C3_Witness ==
    \E t \in Tasks :
        /\ WfFailed(t)
        /\ tasks[t].exc = ClientError("analyze_email")
        /\ tasks[t].calls = <<"get_email", "analyze_email">>

(***************************************************************************)
(* Properties of the lazily initialized Service Directory.                 *)
(***************************************************************************)
\* A client call of a tool is outstanding.
InCall(t) == tasks[t].call # NoneObj

\* C4: every client call of a tool is made on a manager whose initialize()
\* has completed.
C4_CallsOnReadyDirectory ==
    \A t \in Tasks : InCall(t) => managers[service_manager]._initialized

\* C5: a failed run reports the id of the lead it created when create_lead
\* had returned, and None only when it had not.
C5_LeadIdAfterStep4 ==
    \A t \in Tasks :
        WfFailed(t) =>
            tasks[t].result.lead_id =
                IF Len(tasks[t].returned) >= 4 THEN tasks[t].lead ELSE None

\* C6: a run that failed after its lead was created made exactly one CRM
\* call, and the lead is still held by the CRM.
C6_NoRollback ==
    \A t \in Tasks :
        WfFailed(t) /\ tasks[t].lead # None =>
            /\ tasks[t].lead \in crm.leads
            /\ tasks[t].crmCalls = 1

\* A run whose reply failed has returned and its lead is in the CRM.
C6_Witness ==
    \E t \in Tasks :
        /\ WfFailed(t)
        /\ tasks[t].exc = ClientError("send_email")
        /\ tasks[t].lead \in crm.leads

Ready == service_manager # 0 /\ managers[service_manager]._initialized

Handles(mgr) == <<mgr.gmail, mgr.openai, mgr.salesforce>>

InitFailureSurfaced(stage) ==
    \E t \in Tasks :
        /\ tasks[t].pc = "returned"
        /\ tasks[t].exc = ClientError(stage)
        /\ ~tasks[t].result.success
        /\ tasks[t].result.error = stage \o " failed"
        /\ tasks[t].calls = <<>>

\* C8: when initialize() fails the exception reaches the calling tool, no
\* client later in the order gmail, openai, salesforce is constructed or
\* initialized, and the manager is not marked initialized.
C8_FailFast ==
    \A m \in 1..Len(managers) :
        LET mgr == managers[m] IN
        mgr.failed # "" =>
            /\ ~mgr._initialized
            /\ InitFailureSurfaced(mgr.failed)
            /\ (mgr.failed = "GmailService" =>
                   /\ Handles(mgr) = <<0, 0, 0>>
                   /\ constructs = [gmail |-> 1, openai |-> 0, salesforce |-> 0]
                   /\ initCalls = [s \in Services |-> 0])
            /\ (mgr.failed = "gmail.initialize" =>
                   /\ Handles(mgr) = <<1, 0, 0>>
                   /\ constructs = [gmail |-> 1, openai |-> 0, salesforce |-> 0]
                   /\ initCalls = [gmail |-> 1, openai |-> 0, salesforce |-> 0])
            /\ (mgr.failed = "OpenAIService" =>
                   /\ Handles(mgr) = <<1, 0, 0>>
                   /\ constructs = [gmail |-> 1, openai |-> 1, salesforce |-> 0]
                   /\ initCalls = [gmail |-> 1, openai |-> 0, salesforce |-> 0])
            /\ (mgr.failed = "SalesforceService" =>
                   /\ Handles(mgr) = <<1, 1, 0>>
                   /\ constructs = [gmail |-> 1, openai |-> 1, salesforce |-> 1]
                   /\ initCalls = [gmail |-> 1, openai |-> 0, salesforce |-> 0])

\* initialize() failed in gmail.initialize() and a later invocation has
\* run on the manager it left behind.
C8_Witness ==
    /\ service_manager # 0
    /\ managers[service_manager].failed = "gmail.initialize"
    /\ \A t \in Tasks : tasks[t].pc = "returned"

(***************************************************************************)
(* Properties of the envelopes.                                            *)
(***************************************************************************)
\* The operation-specific data fields of a single-purpose tool, empty.
EmptyDefaults(kind) ==
    CASE kind = "fetch_unread_emails"        -> [emails |-> <<>>, count |-> 0]
      [] kind = "analyze_email_with_ai"      -> [analysis |-> NoneObj]
      [] kind = "extract_customer_info"      -> [customer_info |-> NoneObj]
      [] kind = "create_salesforce_lead"     -> [lead_id |-> None, lead_url |-> None]
      [] kind = "search_salesforce_contacts" -> [found |-> FALSE, contacts |-> <<>>]
      [] kind = "send_email_reply"           -> [message_id |-> None]

\* C9: a single-purpose tool in which initialization or the client call
\* raised does not raise; it returns success=false, error = str(e) and its
\* data fields at their empty defaults.
C9_SingleToolEnvelope ==
    \A t \in Tasks :
        tasks[t].kind \in SingleTools =>
            /\ tasks[t].pc # "raised"
            /\ (tasks[t].exc # NoneObj =>
                   LET r == tasks[t].result
                       d == EmptyDefaults(tasks[t].kind)
                   IN /\ tasks[t].pc = "returned"
                      /\ r.success = FALSE
                      /\ r.error = tasks[t].exc.msg
                      /\ DOMAIN r = DOMAIN d \cup {"success", "error"}
                      /\ \A f \in DOMAIN d : r[f] = d[f])

\* One tool returned after initialize() raised, another after its client
\* call raised.
C9_Witness ==
    \E t, u \in Tasks :
        /\ tasks[t].kind \in SingleTools /\ tasks[t].pc = "returned"
        /\ tasks[t].exc = ClientError("gmail.initialize")
        /\ tasks[u].kind = "fetch_unread_emails" /\ tasks[u].pc = "returned"
        /\ tasks[u].exc = ClientError("fetch_unread_emails")

\* C10: process_sales_workflow never raises; its outcome always has the
\* fields success, steps_completed, lead_id and reply_sent, with error
\* whenever success=false, and a run in which nothing finished reports
\* false / [] / None / false.
C10_WorkflowAlwaysReturns ==
    \A t \in Tasks :
        tasks[t].kind = Workflow =>
            /\ tasks[t].pc # "raised"
            /\ (tasks[t].exc # NoneObj => tasks[t].pc = "returned")
            /\ (tasks[t].pc = "returned" =>
                   LET r == tasks[t].result IN
                   /\ {"success", "steps_completed", "lead_id", "reply_sent"} \subseteq DOMAIN r
                   /\ (~r.success => "error" \in DOMAIN r)
                   /\ (tasks[t].returned = <<>> =>
                          /\ r.success = FALSE /\ r.steps_completed = <<>>
                          /\ r.lead_id = None /\ r.reply_sent = FALSE))

\* One run returned after initialize() raised, another after building
\* lead_data raised.
C10_Witness ==
    \E t, u \in Tasks :
        /\ WfFailed(t) /\ tasks[t].exc = ClientError("salesforce.initialize")
        /\ WfFailed(u) /\ tasks[u].exc = IndexErr

(***************************************************************************)
(* Properties of the lead record and the reply.                            *)
(***************************************************************************)
\* C11: building lead_data never raises on a missing or empty name: no run
\* ends with the IndexError of [0] on an empty split.
C11_EmptyNameDoesNotRaise ==
    \A t \in Tasks : tasks[t].kind = Workflow => tasks[t].exc # IndexErr

\* The lead_data a run has passed to the create_lead call it is awaiting.
CreatingLead(t) == tasks[t].kind = Workflow /\ tasks[t].pc = "create_lead"

SentLead(t) == tasks[t].call.args[1]

\* The positions of the non-whitespace characters of s.
NonSpace(s) == {i \in 1..Len(s) : s[i] # " "}

MinOf(S) == CHOOSE i \in S : \A j \in S : i <= j

MaxOf(S) == CHOOSE i \in S : \A j \in S : i >= j

\* The run of non-whitespace characters that starts at the first such character.
FirstTokenOf(s) ==
    LET i == MinOf(NonSpace(s))
        j == MaxOf({k \in i..Len(s) : \A n \in i..k : s[n] # " "})
    IN SubSeq(s, i, j)

\* The run of non-whitespace characters that ends at the last such character.
LastTokenOf(s) ==
    LET j == MaxOf(NonSpace(s))
        i == MinOf({k \in 1..j : \A n \in k..j : s[n] # " "})
    IN SubSeq(s, i, j)

\* s has whitespace between two non-whitespace characters.
SeveralTokens(s) ==
    \E i, k, j \in 1..Len(s) : i < k /\ k < j /\ s[i] # " " /\ s[k] = " " /\ s[j] # " "

\* C12: the lead passed to the CRM has the first token of the name as
\* first_name, and as last_name the last token when the name has two or more
\* tokens and "Unknown" otherwise.
C12_NameSplit ==
    \A t \in Tasks :
        CreatingLead(t) =>
            LET name == tasks[t].customer_info.name
                lead == SentLead(t)
            IN /\ NonSpace(name) # {}
               /\ lead.first_name = FirstTokenOf(name)
               /\ lead.last_name = IF SeveralTokens(name) THEN LastTokenOf(name)
                                   ELSE <<"U", "n", "k", "n", "o", "w", "n">>
               /\ (name = Chars("Jane Doe") =>
                      /\ lead.first_name = <<"J", "a", "n", "e">>
                      /\ lead.last_name = <<"D", "o", "e">>)
               /\ (name = Chars("Madonna") =>
                      /\ lead.first_name = <<"M", "a", "d", "o", "n", "n", "a">>
                      /\ lead.last_name = <<"U", "n", "k", "n", "o", "w", "n">>)

\* Leads for a one-token name and for a three-token name with surrounding
\* and repeated whitespace are being created.
C12_Witness ==
    \E t, u \in Tasks :
        /\ CreatingLead(t) /\ tasks[t].customer_info.name = Chars("Madonna")
        /\ CreatingLead(u) /\ tasks[u].customer_info.name = Chars(" Al  B. Cy ")
        /\ SentLead(u).last_name = <<"C", "y">>

\* Field k of mapping d is there and is not null.
Present(d, k) == k \in DOMAIN d /\ d[k] # None

\* C13: the lead passed to the CRM has the customer's email when present and
\* else the sender's address, the customer's company when present and else
\* "Unknown", the customer's phone or null, the analysis summary as
\* description, and lead_source "Email" - also for absent and null fields.
C13_LeadFields ==
    \A t \in Tasks :
        CreatingLead(t) =>
            LET ci == tasks[t].customer_info
                lead == SentLead(t)
            IN /\ lead.email = IF Present(ci, "email") THEN ci.email ELSE tasks[t].email.from
               /\ lead.company = IF Present(ci, "company") THEN ci.company ELSE "Unknown"
               /\ lead.phone = IF Present(ci, "phone") THEN ci.phone ELSE None
               /\ ("summary" \in DOMAIN tasks[t].analysis =>
                      lead.description = tasks[t].analysis.summary)
               /\ lead.lead_source = "Email"

\* C16: in every outcome success, reply_sent and the presence of
\* "reply_sent" in steps_completed agree.
C16_IndicatorsAgree ==
    \A t \in Tasks :
        WfReturned(t) =>
            LET r == tasks[t].result IN
            /\ r.success <=> r.reply_sent
            /\ r.reply_sent <=> (\E i \in 1..Len(r.steps_completed) :
                                    r.steps_completed[i] = "reply_sent")

\* The steps_completed list of a run: the local while it runs, the outcome's
\* field once it has returned.
CurrentSteps(t) ==
    IF tasks[t].pc = "returned" THEN tasks[t].result.steps_completed
    ELSE tasks[t].steps_completed

\* C17: steps_completed is always a prefix of the five step names (so no name
\* twice), holds exactly the names of the calls that returned, and only
\* grows by appending.
C17_StepsPrefix ==
    /\ [](\A t \in Tasks :
            tasks[t].kind = Workflow =>
                /\ IsPrefix(CurrentSteps(t), StepNames)
                /\ CurrentSteps(t) = FinishedSteps(t))
    /\ [][\A t \in Tasks :
            tasks[t].kind = Workflow => IsPrefix(CurrentSteps(t), CurrentSteps(t)')]_vars

\* A run is awaiting create_lead with three steps done while another has
\* returned with all five.
C17_Witness ==
    \E t, u \in Tasks :
        /\ CreatingLead(t) /\ Len(CurrentSteps(t)) = 3
        /\ WfReturned(u) /\ Len(CurrentSteps(u)) = 5

\* A run is awaiting the send_email call of step 5.
Replying(t) == tasks[t].kind = Workflow /\ tasks[t].pc = "send_email"

\* C18: the reply goes to the sender of the fetched message, with subject
\* "Re: " + its subject and its thread id, or no thread id when it has none.
C18_ReplyAddressing ==
    \A t \in Tasks :
        Replying(t) =>
            LET reply == tasks[t].call.args IN
            /\ (tasks[t].args.email_id = "42" =>
                   /\ reply.to = "a@b.com"
                   /\ reply.subject = "Re: Pricing?"
                   /\ reply.thread_id = "t1")
            /\ (tasks[t].args.email_id = "43" =>
                   /\ reply.to = "c@d.org"
                   /\ reply.subject = "Re: Demo"
                   /\ reply.thread_id = None)

\* A reply to a message with a thread id whose customer gave another email
\* address, and a reply to a message without thread id, are being sent.
C18_Witness ==
    \E t, u \in Tasks :
        /\ Replying(t) /\ tasks[t].args.email_id = "42"
        /\ Present(tasks[t].customer_info, "email")
        /\ tasks[t].customer_info.email # tasks[t].email.from
        /\ Replying(u) /\ tasks[u].args.email_id = "43"

\* C19: the outcome of a run is decided by the results of its own calls: its
\* steps are the calls of its own that returned, and when it failed, one of
\* its own calls raised or returned the data that made it raise.
C19_OwnResultsOnly ==
    \A t \in Tasks :
        WfReturned(t) =>
            /\ tasks[t].result.steps_completed = FinishedSteps(t)
            /\ (WfFailed(t) =>
                   \/ tasks[t].exc \in {IndexErr, KeyErr("id")}
                   \/ /\ tasks[t].calls # <<>>
                      /\ tasks[t].exc = ClientError(tasks[t].calls[Len(tasks[t].calls)])
                      /\ Len(tasks[t].returned) < Len(tasks[t].calls)
                   \/ /\ tasks[t].calls = <<>>
                      /\ tasks[t].exc \in {ClientError(st) :
                             st \in {"GmailService", "gmail.initialize", "OpenAIService",
                                     "SalesforceService", "salesforce.initialize"}})

\* C20: when every awaited call eventually returns or raises, every
\* invocation of process_sales_workflow eventually returns (time and again
\* all invocations made so far have returned), after at most one pass through
\* its five calls.
C20_WorkflowTerminates ==
    /\ [](\A t \in Tasks : tasks[t].kind = Workflow => IsPrefix(tasks[t].calls, WorkflowOps))
    /\ []<>(\A t \in Tasks : tasks[t].kind = Workflow => tasks[t].pc = "returned")

\* One run returned after all five calls, another after its third call raised.
C20_Witness ==
    \E t, u \in Tasks :
        /\ WfReturned(t) /\ Len(tasks[t].returned) = 5
        /\ WfReturned(u) /\ Len(tasks[u].calls) = 3 /\ Len(tasks[u].returned) = 2

C15_InitializedOnce ==
    /\ [](managers[service_manager].failed = "" => \A s \in Services : constructs[s] <= 1)
    /\ [][Ready => /\ Ready'
                   /\ Handles(managers[service_manager])' = Handles(managers[service_manager])]_vars

====
